---- MODULE Spec2Model ----
(***************************************************************************)
(* Model of ipfx/chirp.py: the chirp transform pipeline                    *)
(* (transform_sweep, chirp_sweep_amp_phase, chirp_sweep_features,          *)
(* chirp_amp_phase) and the per-specimen aggregator                        *)
(* extract_chirp_features.                                                 *)
(*                                                                         *)
(* Numbers.  A float is modelled as an extended rational [n, d]: d > 0 is  *)
(* the reduced fraction n/d, d = 0 is +inf (n = 1), -inf (n = -1) or NaN   *)
(* (n = 0).  Arithmetic is exact.  Time is counted in ticks of 1/rate      *)
(* seconds.  The Fourier transform and the Savitzky-Golay filter are not   *)
(* computed: a spectrum bin is the uninterpreted term [fft_of, bin], and   *)
(* the smoothed amplitude/phase curve of a sweep is an input of the        *)
(* operators that need it (the numerical outcome, chosen by the caller).   *)
(***************************************************************************)
EXTENDS Integers, Sequences, FiniteSets, TLC

VARIABLES sweeps, ret, agg, curve

vars == <<sweeps, ret, agg, curve>>

-----------------------------------------------------------------------------
(* Bounds of the model. *)

\* largest number of sweeps in a sweep set
MaxSweeps == 2
\* number of raw samples of a sweep
TraceLen == 112
\* largest length of a curve handed to the feature computation by itself
MaxN == 3
\* largest amplitude / phase / frequency sample of such a curve
MaxAmp == 2

-----------------------------------------------------------------------------
(* Program constants. *)

\* chirp_amp_phase: swp.v[-100:]
AvgTruncTail == 100
\* transform_sweep: sweep.v[-10:]
StimTruncTail == 10
\* chirp_sweep_amp_phase: savgol_filter(x, n_filt, 5)
SavgolPolyorder == 5

-----------------------------------------------------------------------------
(* Floats as extended rationals. *)

Abs(x) == IF x < 0 THEN -x ELSE x

Sign(x) == IF x < 0 THEN -1 ELSE IF x > 0 THEN 1 ELSE 0

Min(a, b) == IF a < b THEN a ELSE b

Max(a, b) == IF a > b THEN a ELSE b

RECURSIVE GCD(_, _)
GCD(a, b) == IF b = 0 THEN a ELSE GCD(b, a % b)

NaN == [n |-> 0, d |-> 0]

\* the float n / d (d may be zero or negative)
Rat(n, d) ==
    IF d = 0 THEN [n |-> Sign(n), d |-> 0]
    ELSE LET g == GCD(Abs(n), Abs(d))
         IN [n |-> Sign(d) * (n \div g), d |-> Abs(d) \div g]

FromInt(k) == [n |-> k, d |-> 1]

IsNaN(x) == x.d = 0 /\ x.n = 0

FAdd(x, y) ==
    IF x.d = 0 /\ y.d = 0 THEN (IF x.n = y.n THEN x ELSE NaN)
    ELSE IF x.d = 0 THEN x
    ELSE IF y.d = 0 THEN y
    ELSE Rat(x.n * y.d + y.n * x.d, x.d * y.d)

FNeg(x) == [n |-> -x.n, d |-> x.d]

FSub(x, y) == FAdd(x, FNeg(y))

FAbs(x) == [n |-> Abs(x.n), d |-> x.d]

\* x / k for an integer k > 0
FDivInt(x, k) == IF x.d = 0 THEN x ELSE Rat(x.n, x.d * k)

\* x < y as IEEE compares (false when either is NaN)
FLess(x, y) ==
    IF IsNaN(x) \/ IsNaN(y) THEN FALSE
    ELSE IF x.d = 0 /\ y.d = 0 THEN x.n < y.n
    ELSE IF x.d = 0 THEN x.n < 0
    ELSE IF y.d = 0 THEN y.n > 0
    ELSE x.n * y.d < y.n * x.d

\* np.rint of a finite non-negative float: nearest integer, halves to even
Rint(x) ==
    LET q == x.n \div x.d
        r == x.n % x.d
    IN IF 2 * r < x.d THEN q
       ELSE IF 2 * r > x.d THEN q + 1
       ELSE IF q % 2 = 0 THEN q ELSE q + 1

RECURSIVE FSum(_)
FSum(s) == IF s = <<>> THEN FromInt(0) ELSE FAdd(Head(s), FSum(Tail(s)))

\* np.mean of a non-empty list of floats
Mean(s) == FDivInt(FSum(s), Len(s))

-----------------------------------------------------------------------------
(* Python sequence operations (indices are Python's, from 0). *)

\* a[lo:hi] for 0 <= lo, 0 <= hi
PySlice(a, lo, hi) == SubSeq(a, lo + 1, Min(hi, Len(a)))

\* a[-k:]
PyTail(a, k) == SubSeq(a, Max(1, Len(a) - k + 1), Len(a))

\* a[::w]
PyStride(a, w) == [k \in 1..((Len(a) + w - 1) \div w) |-> a[(k - 1) * w + 1]]

\* np.all(a == 0)
AllZero(a) == \A k \in 1..Len(a) : a[k] = 0

-----------------------------------------------------------------------------
(* Sweep (ipfx.sweep): the raw traces v and i, the sampling rate, the      *)
(* stimulus epoch as a pair of raw sample indices (first, last), and the   *)
(* name of the selected epoch.  The properties v, i, t are the raw traces  *)
(* restricted to the selected epoch; t is held in ticks.                   *)

Epoch(sweep) ==
    IF sweep.selected_epoch_name = "stim" THEN sweep.stim
    ELSE <<0, Len(sweep.v) - 1>>

SweepV(sweep) == SubSeq(sweep.v, Epoch(sweep)[1] + 1, Epoch(sweep)[2] + 1)

SweepI(sweep) == SubSeq(sweep.i, Epoch(sweep)[1] + 1, Epoch(sweep)[2] + 1)

SweepT(sweep) ==
    [k \in 1..(Epoch(sweep)[2] - Epoch(sweep)[1] + 1) |-> Epoch(sweep)[1] + k - 1]

select_epoch(sweep, name) == [sweep EXCEPT !.selected_epoch_name = name]

ToFloat(a) == [k \in 1..Len(a) |-> FromInt(a[k])]

\* seconds of a tick sequence
Seconds(ticks, rate) == [k \in 1..Len(ticks) |-> Rat(ticks[k], rate)]

-----------------------------------------------------------------------------
(* Resampler (feature_vectors._subsample_average) and Time-Index Locator   *)
(* (time_series_utils.find_time_index).                                    *)

NotNaN(x) == ~IsNaN(x)

NanMean(block) ==
    LET good == SelectSeq(block, NotNaN)
    IN IF good = <<>> THEN NaN ELSE Mean(good)

subsample_average(x, width) ==
    [k \in 1..(Len(x) \div width) |->
        NanMean([j \in 1..width |-> x[(k - 1) * width + j]])]

\* of two indices a < b, the one whose entry is closer to t_0 (a on a tie)
Closer(t, t_0, a, b) ==
    IF FLess(FAbs(FSub(t[b], t_0)), FAbs(FSub(t[a], t_0))) THEN b ELSE a

RECURSIVE NearestIn(_, _, _, _)
NearestIn(t, t_0, lo, hi) ==
    IF lo = hi THEN lo
    ELSE Closer(t, t_0, NearestIn(t, t_0, lo, (lo + hi) \div 2),
                NearestIn(t, t_0, (lo + hi) \div 2 + 1, hi))

\* index (from 0) of the entry of the non-empty array t closest to t_0,
\* the lowest such index on a tie
find_time_index(t, t_0) == NearestIn(t, t_0, 1, Len(t)) - 1

-----------------------------------------------------------------------------
(* numpy / scipy operations used by the transforms. *)

\* np.linspace(0.0, stop, num)
linspace(stop, num) ==
    [k \in 1..num |->
        IF num = 1 THEN FromInt(0) ELSE Rat((k - 1) * stop.n, stop.d * (num - 1))]

\* fftpack.fft(x): one uninterpreted bin per sample of the trace named
fft(x, trace) == [k \in 1..Len(x) |-> [fft_of |-> trace, bin |-> k - 1]]

\* np.pad(x, (pad, 0), 'constant', constant_values=np.nan)
PadLeftNaN(x, pad) == [k \in 1..pad |-> NaN] \o x

CeilDiv(a, b) == (a + b - 1) \div b

Raise(exc, sweep) == [err |-> exc, sweep |-> sweep]

-----------------------------------------------------------------------------
(* transform_sweep *)

\* v_fft[low_ind:high_ind]
BandSliceInclusive(arr, low_ind, high_ind) == PySlice(arr, low_ind, high_ind + 1)

BandSlice(arr, low_ind, high_ind) == PySlice(arr, low_ind, high_ind)

\* int(N / n_sample)
SampleWidth(N, n_sample) == N \div n_sample

\* int(width*np.ceil(N/width) - N)
PadLength(N, width) == width * CeilDiv(N, width) - N

\* fv._subsample_average(np.pad(x, (pad,0), ...), width)
PadAndAverage(x, width) ==
    subsample_average(PadLeftNaN(ToFloat(x), PadLength(Len(x), width)), width)

\* np.linspace(0.0, 1.0/(2.0*dt), N//2), dt the spacing of the ticks t
FrequencyAxis(t, rate, N) == linspace(Rat(rate, 2 * (t[2] - t[1])), N \div 2)

\* lines 185-188: the band located on xf and the three slices returned
TransformBand(sw, v_fft, i_fft, xf, low_ind, high_ind) ==
    [err |-> "none", sweep |-> sw,
     v |-> BandSlice(v_fft, low_ind, high_ind),
     i |-> BandSlice(i_fft, low_ind, high_ind),
     freq |-> BandSlice(xf, low_ind, high_ind),
     v_fft |-> v_fft, i_fft |-> i_fft, xf |-> xf,
     low_ind |-> low_ind, high_ind |-> high_ind]

\* lines 178-186: the spectra of the downsampled traces v, i on the ticks t
TransformSpectra(sw, v, i, xf, min_freq, max_freq) ==
    TransformBand(sw, fft(v, "v"), fft(i, "i"), xf,
                  find_time_index(xf, FromInt(min_freq)),
                  find_time_index(xf, FromInt(max_freq)))

\* lines 173-180: the downsampling by width
TransformDown(sw, width, min_freq, max_freq) ==
    IF Len(PyStride(SweepT(sw), width)) < 2 THEN Raise("IndexError", sw)
    ELSE TransformSpectra(sw, PadAndAverage(SweepV(sw), width),
                          PadAndAverage(SweepI(sw), width),
                          FrequencyAxis(PyStride(SweepT(sw), width), sw.rate,
                                        Len(PadAndAverage(SweepV(sw), width))),
                          min_freq, max_freq)

\* lines 162-173, on the sweep with its stimulus epoch selected
TransformEpoch(sw, n_sample, min_freq, max_freq) ==
    IF AllZero(PyTail(SweepV(sw), StimTruncTail)) THEN Raise("FeatureError", sw)
    ELSE IF SampleWidth(Len(SweepV(sw)), n_sample) = 0
         THEN Raise("ZeroDivisionError", sw)
    ELSE TransformDown(sw, SampleWidth(Len(SweepV(sw)), n_sample), min_freq, max_freq)

transform_sweep(sweep, n_sample, min_freq, max_freq) ==
    TransformEpoch(select_epoch(sweep, "stim"), n_sample, min_freq, max_freq)

-----------------------------------------------------------------------------
(* chirp_sweep_amp_phase.  smooth is the numerical outcome of              *)
(* savgol_filter on |Z| and angle(Z): a pattern of amplitude and phase     *)
(* samples, repeated to the length of the band.                            *)

Tile(seed, n) == [k \in 1..n |-> seed[((k - 1) % Len(seed)) + 1]]

\* int(np.rint(1/(freq[1]-freq[0])))*2 + 1
FilterWindow(freq) ==
    LET df == FSub(freq[2], freq[1])
    IN Rint(Rat(df.d, df.n)) * 2 + 1

\* lines 48-57, on the result tr of transform_sweep
AmpPhaseOfTransform(tr, smooth) ==
    IF tr.err # "none" THEN tr
    ELSE IF Len(tr.freq) < 2 THEN Raise("IndexError", tr.sweep)
    ELSE IF FilterWindow(tr.freq) <= SavgolPolyorder
            \/ FilterWindow(tr.freq) > Len(tr.freq)
         THEN Raise("ValueError", tr.sweep)
    ELSE [err |-> "none", sweep |-> tr.sweep,
          amp |-> Tile(smooth.amp, Len(tr.freq)),
          phase |-> Tile(smooth.phase, Len(tr.freq)),
          freq |-> tr.freq]

chirp_sweep_amp_phase(sweep, method_params, smooth) ==
    AmpPhaseOfTransform(
        transform_sweep(sweep, method_params.n_sample, method_params.min_freq,
                        method_params.max_freq),
        smooth)

-----------------------------------------------------------------------------
(* chirp_sweep_features.  amp and phase are integer samples, freq floats.  *)

FeatureNames ==
    {"peak_ratio", "peak_freq", "3db_freq", "z_low", "z_high", "z_peak",
     "phase_peak", "phase_low", "phase_high"}

RECURSIVE ArgMaxFrom(_, _, _)
ArgMaxFrom(a, k, best) ==
    IF k > Len(a) THEN best
    ELSE IF a[k] > a[best] THEN ArgMaxFrom(a, k + 1, k)
    ELSE ArgMaxFrom(a, k + 1, best)

RECURSIVE ArgMaxLastFrom(_, _, _)
ArgMaxLastFrom(a, k, best) ==
    IF k > Len(a) THEN best
    ELSE IF a[k] >= a[best] THEN ArgMaxLastFrom(a, k + 1, k)
    ELSE ArgMaxLastFrom(a, k + 1, best)

RECURSIVE ArgMinFrom(_, _, _)
ArgMinFrom(a, k, best) ==
    IF k > Len(a) THEN best
    ELSE IF a[k] < a[best] THEN ArgMinFrom(a, k + 1, k)
    ELSE ArgMinFrom(a, k + 1, best)

\* a mutant of argmax: the first index of the minimum
argmax_as_argmin(a) == ArgMinFrom(a, 2, 1) - 1

\* a mutant of argmax: the last index of the maximum
argmax_last(a) == ArgMaxLastFrom(a, 2, 1) - 1

\* np.argmax(a): the first index (from 0) of the maximum
argmax(a) == ArgMaxFrom(a, 2, 1) - 1

\* s < sqrt(2) * z, for integers s and z
LtSqrt2(s, z) ==
    IF s < 0 /\ z >= 0 THEN TRUE
    ELSE IF s >= 0 /\ z <= 0 THEN FALSE
    ELSE IF s >= 0 THEN s * s < 2 * z * z
    ELSE s * s > 2 * z * z

\* abs(a - z/sqrt(2)) < abs(b - z/sqrt(2)), for integers a, b and z
CutoffDistLess(a, b, z) ==
    IF a = b THEN FALSE
    ELSE IF a > b THEN LtSqrt2(a + b, z)
    ELSE LtSqrt2(-(a + b), -z)

RECURSIVE ArgMinCutoffFrom(_, _, _, _)
ArgMinCutoffFrom(amp, z, k, best) ==
    IF k > Len(amp) THEN best
    ELSE IF CutoffDistLess(amp[k], amp[best], z)
         THEN ArgMinCutoffFrom(amp, z, k + 1, k)
         ELSE ArgMinCutoffFrom(amp, z, k + 1, best)

\* np.argmin(abs(amp - z_max/np.sqrt(2)))
argmin_cutoff(amp, z_max) == ArgMinCutoffFrom(amp, z_max, 2, 1) - 1

\* the feature computation of chirp_sweep_features on the smoothed curve
Features(amp, phase, freq) ==
    LET i_max == argmax(amp)
        z_max == amp[i_max + 1]
        i_cutoff == argmin_cutoff(amp, z_max)
    IN [key \in FeatureNames |->
          CASE key = "peak_ratio" -> Rat(amp[i_max + 1], amp[1])
            [] key = "peak_freq" -> freq[i_max + 1]
            [] key = "3db_freq" -> freq[i_cutoff + 1]
            [] key = "z_low" -> FromInt(amp[1])
            [] key = "z_high" -> FromInt(amp[Len(amp)])
            [] key = "z_peak" -> FromInt(z_max)
            [] key = "phase_peak" -> FromInt(phase[i_max + 1])
            [] key = "phase_low" -> FromInt(phase[1])
            [] key = "phase_high" -> FromInt(phase[Len(phase)])]

\* lines 61-75, on the result ap of chirp_sweep_amp_phase
FeaturesOfAmpPhase(ap) ==
    IF ap.err # "none" THEN ap
    ELSE [err |-> "none", sweep |-> ap.sweep,
          features |-> Features(ap.amp, ap.phase, ap.freq)]

chirp_sweep_features(sweep, method_params, smooth) ==
    FeaturesOfAmpPhase(chirp_sweep_amp_phase(sweep, method_params, smooth))

-----------------------------------------------------------------------------
(* chirp_amp_phase *)

\* a mutant of IsTruncated: no sweep is discarded
IsTruncatedNever(swp) == FALSE

\* np.all(swp.v[-100:] == 0)
IsTruncated(swp) == AllZero(PyTail(SweepV(swp), AvgTruncTail))

\* the loop over sweep_set.sweeps: the voltage views of the sweeps kept
RECURSIVE v_list(_)
v_list(sweep_set) ==
    IF sweep_set = <<>> THEN <<>>
    ELSE IF IsTruncated(Head(sweep_set)) THEN v_list(Tail(sweep_set))
    ELSE <<SweepV(Head(sweep_set))>> \o v_list(Tail(sweep_set))

\* the loop over sweep_set.sweeps: the current views of the sweeps kept
RECURSIVE i_list(_)
i_list(sweep_set) ==
    IF sweep_set = <<>> THEN <<>>
    ELSE IF IsTruncated(Head(sweep_set)) THEN i_list(Tail(sweep_set))
    ELSE <<SweepI(Head(sweep_set))>> \o i_list(Tail(sweep_set))

\* np.vstack(rows).mean(axis=0), rows of one length
StackMean(rows) ==
    [k \in 1..Len(rows[1]) |->
        Mean([r \in 1..Len(rows) |-> FromInt(rows[r][k])])]

SameLengths(rows) == \A r \in 1..Len(rows) : Len(rows[r]) = Len(rows[1])

\* a mutant of DecimationWidth: the nearest integer
DecimationWidthRounded(current_rate, down_rate) == Rint(Rat(current_rate, down_rate))

\* int(current_rate / down_rate)
DecimationWidth(current_rate, down_rate) == current_rate \div down_rate

\* lines 151-157: the half spectrum and the band located on xf
AmpPhaseBand(avg, ds, start_index, end_index, N, xf, low_ind, high_ind) ==
    [err |-> "none", avg_v |-> avg.v, avg_i |-> avg.i, t |-> avg.t,
     ds_v |-> ds.v, ds_i |-> ds.i, ds_t |-> ds.t,
     start_index |-> start_index, end_index |-> end_index,
     v_fft |-> PySlice(fft(PySlice(ds.v, start_index, end_index), "v"), 0, N \div 2),
     i_fft |-> PySlice(fft(PySlice(ds.i, start_index, end_index), "i"), 0, N \div 2),
     freq |-> PySlice(xf, low_ind, high_ind),
     low_ind |-> low_ind, high_ind |-> high_ind]

\* lines 141-155: the window start_index:end_index of N samples
AmpPhaseWindow(avg, ds, rate, start_index, end_index, N, min_freq, max_freq) ==
    IF Len(ds.t) < 2 THEN [err |-> "IndexError"]
    ELSE IF N \div 2 = 0 THEN [err |-> "EmptySpectrum"]
    ELSE \* xf has N // 2 >= 1 entries
         AmpPhaseBand(avg, ds, start_index, end_index, N,
                      FrequencyAxis(ds.t, rate, N),
                      find_time_index(FrequencyAxis(ds.t, rate, N), FromInt(min_freq)),
                      find_time_index(FrequencyAxis(ds.t, rate, N), FromInt(max_freq)))

\* lines 138-141: the stimulus window located on the downsampled time base
AmpPhaseOfDownsampled(avg, ds, rate, start, end, min_freq, max_freq) ==
    AmpPhaseWindow(avg, ds, rate,
                   find_time_index(Seconds(ds.t, rate), FromInt(start)),
                   find_time_index(Seconds(ds.t, rate), FromInt(end)),
                   Len(PySlice(ds.v,
                               find_time_index(Seconds(ds.t, rate), FromInt(start)),
                               find_time_index(Seconds(ds.t, rate), FromInt(end)))),
                   min_freq, max_freq)

\* lines 128-136: the downsampling of the averaged traces
Downsample(avg, current_rate, down_rate) ==
    IF current_rate > down_rate
    THEN [v |-> subsample_average(avg.v, DecimationWidth(current_rate, down_rate)),
          i |-> subsample_average(avg.i, DecimationWidth(current_rate, down_rate)),
          t |-> PyStride(avg.t, DecimationWidth(current_rate, down_rate))]
    ELSE [v |-> avg.v, i |-> avg.i, t |-> avg.t]

\* lines 127-157, on the averaged traces avg
AmpPhaseOfAverage(avg, rate, start, end, down_rate, min_freq, max_freq) ==
    AmpPhaseOfDownsampled(avg,
                          Downsample(avg, Rint(Rat(rate, avg.t[2] - avg.t[1])), down_rate),
                          rate, start, end, min_freq, max_freq)

chirp_amp_phase(sweep_set, start, end, down_rate, min_freq, max_freq) ==
    IF v_list(sweep_set) = <<>> THEN [err |-> "ValueError"]
    ELSE IF ~SameLengths(v_list(sweep_set)) THEN [err |-> "ValueError"]
    ELSE IF Len(SweepT(sweep_set[1])) < 2 THEN [err |-> "IndexError"]
    ELSE AmpPhaseOfAverage([v |-> StackMean(v_list(sweep_set)),
                            i |-> StackMean(i_list(sweep_set)),
                            t |-> SweepT(sweep_set[1])],
                           sweep_set[1].rate, start, end, down_rate,
                           min_freq, max_freq)

-----------------------------------------------------------------------------
(* extract_chirp_features: the handler of a per-sweep exception and the    *)
(* mean over the results.                                                  *)

EmptyMap == [key \in {} |-> NaN]

\* a mutant of except_clause: only FeatureError is caught
except_clause_feature_error_only(exc) ==
    IF exc = "FeatureError" THEN "debug" ELSE "raise"

\* except FeatureError: logging.debug / except Exception: logging.warning
except_clause(exc) ==
    IF exc = "FeatureError" THEN "debug" ELSE "warning"

\* a mutant of mean_results: the sum is divided by the number of sweeps tried
mean_results_over_all(results, n_sweeps) ==
    [key \in DOMAIN results[1] |->
        FDivInt(FSum([r \in 1..Len(results) |-> results[r][key]]), n_sweeps)]

\* {key: np.mean([res[key] for res in results]) for key in results[0]}
mean_results(results, n_sweeps) ==
    [key \in DOMAIN results[1] |->
        Mean([r \in 1..Len(results) |-> results[r][key]])]

\* a mutant of extract_result: the mean is taken of an empty list as well
extract_result_always_mean(results, n_sweeps) ==
    IF Len(results) = 0 THEN [key \in FeatureNames |-> NaN]
    ELSE mean_results(results, n_sweeps)

\* lines 39-44: {} when no sweep gave features, the mean otherwise
extract_result(results, n_sweeps) ==
    IF Len(results) = 0 THEN EmptyMap ELSE mean_results(results, n_sweeps)

-----------------------------------------------------------------------------
(* The inputs drawn. *)

Impulse(p, val) == [k \in 1..TraceLen |-> IF k = p + 1 THEN val ELSE 0]

\* the stimulus epoch: raw samples 6 .. 105
StimEpoch == <<6, 105>>

\* a stimulus epoch shorter than the n_sample of most calls: raw samples 6 .. 45
ShortStimEpoch == <<6, 45>>

\* a sweep as the loader hands it over: sampled at 32 Hz, the whole sweep selected
SweepOf(v, i, stim) ==
    [v |-> v, i |-> i, rate |-> 32, stim |-> stim,
     selected_epoch_name |-> "sweep"]

SweepFamily ==
    { \* no response at all
      SweepOf(Impulse(0, 0), Impulse(StimEpoch[2], 1), StimEpoch),
      \* the last response sample lies just before the final AvgTruncTail samples
      SweepOf(Impulse(TraceLen - AvgTruncTail - 1, 1), Impulse(StimEpoch[2], 2),
              StimEpoch),
      \* a response inside the last StimTruncTail samples of the stimulus epoch
      SweepOf(Impulse(StimEpoch[2] - StimTruncTail + 1, 3), Impulse(StimEpoch[2], 1),
              StimEpoch),
      \* a response in the last raw sample only, after the stimulus epoch
      SweepOf(Impulse(TraceLen - 1, 1), Impulse(StimEpoch[2] - 1, 2), StimEpoch),
      \* a response at the end of a short stimulus epoch
      SweepOf(Impulse(ShortStimEpoch[2], 2), Impulse(ShortStimEpoch[2], 1),
              ShortStimEpoch) }

RECURSIVE SeqsUpTo(_, _)
SeqsUpTo(S, n) ==
    IF n = 0 THEN {<<>>}
    ELSE SeqsUpTo(S, n - 1)
         \cup {Append(q, x) : q \in {r \in SeqsUpTo(S, n - 1) : Len(r) = n - 1}, x \in S}

MethodParams ==
    { [n_sample |-> 50, min_freq |-> 1, max_freq |-> 4],
      [n_sample |-> 33, min_freq |-> 0, max_freq |-> 100],
      [n_sample |-> 200, min_freq |-> 1, max_freq |-> 4],
      [n_sample |-> 1, min_freq |-> 1, max_freq |-> 4],
      [n_sample |-> 50, min_freq |-> 1, max_freq |-> 2] }

AmpPhaseParams ==
    { [start |-> 0, end |-> 3, down_rate |-> 12, min_freq |-> 1, max_freq |-> 4],
      [start |-> 0, end |-> 3, down_rate |-> 16, min_freq |-> 1, max_freq |-> 4],
      [start |-> 1, end |-> 2, down_rate |-> 32, min_freq |-> 0, max_freq |-> 40] }

\* outcomes of the smoothing filter
Curves ==
    { [amp |-> <<1, 3, 2>>, phase |-> <<0, 1>>],
      [amp |-> <<2, 1>>, phase |-> <<1, 0, 0>>] }

NoRet == [fn |-> "none", err |-> "none"]

NoCurve == [amp |-> <<>>, phase |-> <<>>, freq |-> <<>>]

Idle == [pc |-> "idle"]

-----------------------------------------------------------------------------
(* The calls. *)

Init ==
    /\ sweeps \in SeqsUpTo(SweepFamily, MaxSweeps)
    /\ ret = NoRet
    /\ agg = Idle
    /\ curve = NoCurve

CallTransformSweep ==
    /\ agg.pc = "idle"
    /\ ret = NoRet
    /\ \E k \in 1..Len(sweeps), mp \in MethodParams :
         \E out \in {transform_sweep(sweeps[k], mp.n_sample, mp.min_freq, mp.max_freq)} :
            /\ ret' = [fn |-> "transform_sweep", err |-> out.err, sweep_number |-> k,
                       params |-> mp, out |-> out]
            /\ sweeps' = [sweeps EXCEPT ![k] = out.sweep]
    /\ UNCHANGED <<agg, curve>>

CallChirpSweepAmpPhase ==
    /\ agg.pc = "idle"
    /\ ret = NoRet
    /\ \E k \in 1..Len(sweeps), mp \in MethodParams, smooth \in Curves :
         \E out \in {chirp_sweep_amp_phase(sweeps[k], mp, smooth)} :
            /\ ret' = [fn |-> "chirp_sweep_amp_phase", err |-> out.err,
                       sweep_number |-> k, params |-> mp, out |-> out]
            /\ sweeps' = [sweeps EXCEPT ![k] = out.sweep]
    /\ UNCHANGED <<agg, curve>>

CallChirpSweepFeatures ==
    /\ agg.pc = "idle"
    /\ ret = NoRet
    /\ \E k \in 1..Len(sweeps), mp \in MethodParams, smooth \in Curves :
         \E out \in {chirp_sweep_features(sweeps[k], mp, smooth)} :
            /\ ret' = [fn |-> "chirp_sweep_features", err |-> out.err,
                       sweep_number |-> k, params |-> mp, out |-> out]
            /\ sweeps' = [sweeps EXCEPT ![k] = out.sweep]
    /\ UNCHANGED <<agg, curve>>

CallChirpAmpPhase ==
    /\ agg.pc = "idle"
    /\ ret = NoRet
    /\ \E ap \in AmpPhaseParams :
         \E out \in {chirp_amp_phase(sweeps, ap.start, ap.end, ap.down_rate,
                                      ap.min_freq, ap.max_freq)} :
            ret' = [fn |-> "chirp_amp_phase", err |-> out.err, params |-> ap,
                    out |-> out]
    /\ UNCHANGED <<sweeps, agg, curve>>

\* lines 22-29: the load; a failure of the loader is answered with {}
ExtractLoad ==
    /\ agg.pc = "idle"
    /\ ret = NoRet
    /\ \E mp \in MethodParams, loaded \in BOOLEAN :
         IF loaded
         THEN /\ agg' = [pc |-> "loop", sweepset |-> sweeps, method_params |-> mp,
                         idx |-> 1, results |-> <<>>, log |-> <<>>]
              /\ ret' = NoRet
         ELSE /\ agg' = Idle
              /\ ret' = [fn |-> "extract_chirp_features", err |-> "none",
                         loaded |-> FALSE, value |-> EmptyMap, log |-> <<>>,
                         n_sweeps |-> 0]
    /\ UNCHANGED <<sweeps, curve>>

\* lines 30-37: one turn of the loop over sweepset.sweeps
ExtractSweep ==
    /\ agg.pc = "loop"
    /\ agg.idx <= Len(agg.sweepset)
    /\ \E smooth \in Curves :
         \E out \in {chirp_sweep_features(agg.sweepset[agg.idx], agg.method_params,
                                            smooth)} :
         \E entry \in {[sweep_number |-> agg.idx, err |-> out.err,
                         features |-> IF out.err = "none" THEN out.features
                                      ELSE EmptyMap]} :
            IF out.err # "none" /\ except_clause(out.err) = "raise"
            THEN /\ agg' = Idle
                 /\ ret' = [fn |-> "extract_chirp_features", err |-> out.err,
                            loaded |-> TRUE, value |-> EmptyMap,
                            log |-> Append(agg.log, entry),
                            n_sweeps |-> Len(agg.sweepset)]
            ELSE /\ agg' = [agg EXCEPT
                              !.sweepset[agg.idx] = out.sweep,
                              !.idx = agg.idx + 1,
                              !.results = IF out.err = "none"
                                          THEN Append(agg.results, out.features)
                                          ELSE agg.results,
                              !.log = Append(agg.log, entry)]
                 /\ ret' = ret
    /\ UNCHANGED <<sweeps, curve>>

\* lines 39-44: the empty result or the mean
ExtractFinish ==
    /\ agg.pc = "loop"
    /\ agg.idx > Len(agg.sweepset)
    /\ ret' = [fn |-> "extract_chirp_features", err |-> "none", loaded |-> TRUE,
               value |-> extract_result(agg.results, Len(agg.sweepset)),
               log |-> agg.log, n_sweeps |-> Len(agg.sweepset)]
    /\ agg' = Idle
    /\ UNCHANGED <<sweeps, curve>>

\* the caller takes the result of the call that ended
TakeResult ==
    /\ agg.pc = "idle"
    /\ ret # NoRet
    /\ ret' = NoRet
    /\ UNCHANGED <<sweeps, agg, curve>>

Next ==
    \/ TakeResult
    \/ CallTransformSweep
    \/ CallChirpSweepAmpPhase
    \/ CallChirpSweepFeatures
    \/ CallChirpAmpPhase
    \/ ExtractLoad
    \/ ExtractSweep
    \/ ExtractFinish

Spec == Init /\ [][Next]_vars

-----------------------------------------------------------------------------
(* The feature computation by itself, on every small curve. *)

CurveInputs ==
    UNION { { [amp |-> a,
               phase |-> [k \in 1..n |-> IF up = 1 THEN k ELSE n - k],
               freq |-> [k \in 1..n |-> FromInt(f0 + 2 * k)]] :
              a \in [1..n -> (-1)..MaxAmp], up \in 0..1, f0 \in 0..1 } :
            n \in 1..MaxN }

FeatInit ==
    /\ sweeps = <<>>
    /\ ret = NoRet
    /\ agg = Idle
    /\ curve \in CurveInputs

FeatCompute ==
    /\ ret.fn = "none"
    /\ ret' = [fn |-> "Features", err |-> "none",
               features |-> Features(curve.amp, curve.phase, curve.freq)]
    /\ UNCHANGED <<sweeps, agg, curve>>

FeatNext == FeatCompute

SpecFeat == FeatInit /\ [][FeatNext]_vars

-----------------------------------------------------------------------------
(* Properties of extract_chirp_features. *)

IsSuccess(entry) == entry.err = "none"

Succeeded(log) == SelectSeq(log, IsSuccess)

LogNumbers(log) == [k \in 1..Len(log) |-> log[k].sweep_number]

\* m is the arithmetic mean of the finite floats xs
IsMeanOf(m, xs) ==
    /\ m.d > 0
    /\ FSum(xs).d > 0
    /\ m.n * FSum(xs).d * Len(xs) = FSum(xs).n * m.d

\* C1: extract_chirp_features never raises because of a per-sweep problem:
\* whatever the sweeps' outcomes (features, FeatureError, another exception)
\* the call returns a mapping, and the sweeps of the sweep set are tried
\* once each, in order, also after earlier sweeps failed.
ExtractNeverRaises ==
    /\ agg.pc = "loop" => LogNumbers(agg.log) = [k \in 1..(agg.idx - 1) |-> k]
    /\ ret.fn = "extract_chirp_features" =>
         /\ ret.err = "none"
         /\ DOMAIN ret.value \subseteq FeatureNames
         /\ ret.loaded => LogNumbers(ret.log) = [k \in 1..Len(sweeps) |-> k]

\* a call that went on to a sweep with features after a ZeroDivisionError
ExtractContinuedAfterException ==
    /\ ret.fn = "extract_chirp_features"
    /\ ret.loaded
    /\ Len(ret.log) = 2
    /\ ret.log[1].err = "ZeroDivisionError"
    /\ ret.log[2].err = "none"
    /\ ret.err = "none"

\* C2: extract_chirp_features returns the empty mapping, and does not raise,
\* when the load fails and when the load succeeds but no sweep gives features
\* (a sweep set without sweeps included).
ExtractEmptyOnTotalFailure ==
    (/\ ret.fn = "extract_chirp_features"
     /\ (~ret.loaded \/ Succeeded(ret.log) = <<>>))
    => (ret.err = "none" /\ DOMAIN ret.value = {})

\* a call whose two sweeps both failed, one of them not with FeatureError
ExtractAllSweepsFailed ==
    /\ ret.fn = "extract_chirp_features"
    /\ ret.loaded
    /\ Len(ret.log) = 2
    /\ ret.log[1].err = "FeatureError"
    /\ ret.log[2].err = "ZeroDivisionError"
    /\ DOMAIN ret.value = {}

\* C3: when at least one sweep succeeds, the result has exactly the 9 feature
\* names, each value the arithmetic mean of that feature over exactly the
\* sweeps that succeeded; with one success the result is that sweep's features.
ExtractMeanOfSucceeded ==
    (/\ ret.fn = "extract_chirp_features"
     /\ ret.loaded
     /\ Succeeded(ret.log) # <<>>)
    => /\ ret.err = "none"
       /\ DOMAIN ret.value = FeatureNames
       /\ \A key \in FeatureNames :
            IsMeanOf(ret.value[key],
                     [k \in 1..Len(Succeeded(ret.log)) |->
                        Succeeded(ret.log)[k].features[key]])
       /\ Len(Succeeded(ret.log)) = 1 => ret.value = Succeeded(ret.log)[1].features

\* a call with one truncated sweep and one sweep with features
ExtractOneTruncatedOneSuccess ==
    /\ ret.fn = "extract_chirp_features"
    /\ ret.loaded
    /\ Len(ret.log) = 2
    /\ ret.log[1].err = "FeatureError"
    /\ ret.log[2].err = "none"
    /\ ret.value = ret.log[2].features

-----------------------------------------------------------------------------
(* Properties of chirp_amp_phase. *)

\* every sweep of the set is discarded by the truncation check (or there is none)
AllDiscarded ==
    \A k \in 1..Len(sweeps) : AllZero(PyTail(SweepV(sweeps[k]), AvgTruncTail))

BlockMeans(ds, x, w) ==
    /\ Len(ds) = Len(x) \div w
    /\ \A k \in 1..Len(ds) : IsMeanOf(ds[k], [j \in 1..w |-> x[(k - 1) * w + j]])

\* the result out is the averaged traces decimated by w
DecimatedBy(out, w) ==
    /\ Len(out.ds_t) = CeilDiv(Len(out.t), w)
    /\ \A k \in 1..Len(out.ds_t) : out.ds_t[k] = out.t[(k - 1) * w + 1]
    /\ BlockMeans(out.ds_v, out.avg_v, w)
    /\ BlockMeans(out.ds_i, out.avg_i, w)

PassedThrough(out) ==
    /\ out.ds_v = out.avg_v
    /\ out.ds_i = out.avg_i
    /\ out.ds_t = out.t

\* C5 as claimed: when the current rate exceeds down_rate the traces and the
\* time base are decimated by round(current_rate / down_rate); otherwise they
\* pass through unchanged.
AmpPhaseWidthRounded ==
    (ret.fn = "chirp_amp_phase" /\ ret.err = "none")
    => IF sweeps[1].rate > ret.params.down_rate
       THEN DecimatedBy(ret.out, Rint(Rat(sweeps[1].rate, ret.params.down_rate)))
       ELSE PassedThrough(ret.out)

\* C5 as amended: when the current rate exceeds down_rate the traces and the
\* time base are decimated by the quotient current_rate / down_rate truncated
\* to an integer; otherwise they pass through unchanged.
AmpPhaseWidthTruncated ==
    (ret.fn = "chirp_amp_phase" /\ ret.err = "none")
    => IF sweeps[1].rate > ret.params.down_rate
       THEN DecimatedBy(ret.out, sweeps[1].rate \div ret.params.down_rate)
       ELSE PassedThrough(ret.out)

\* a call at 32 Hz with down_rate 12: the quotient 2.67 is truncated to 2
AmpPhaseDecimatedByTwo ==
    /\ ret.fn = "chirp_amp_phase"
    /\ ret.err = "none"
    /\ sweeps[1].rate = 32
    /\ ret.params.down_rate = 12
    /\ Len(ret.out.ds_v) = Len(ret.out.avg_v) \div 2

\* the sweeps whose final AvgTruncTail samples of the full voltage trace are
\* not all zero
FullTraceSurvivors ==
    {k \in 1..Len(sweeps) : ~AllZero(PyTail(sweeps[k].v, AvgTruncTail))}

RECURSIVE SumOver(_, _, _)
SumOver(S, View(_), j) ==
    IF S = {} THEN 0
    ELSE LET k == CHOOSE x \in S : TRUE
         IN View(sweeps[k])[j] + SumOver(S \ {k}, View, j)

\* avg is the pointwise mean of the views of the sweeps S
MeanOfSweeps(avg, S, View(_)) ==
    /\ S # {}
    /\ \A k \in S : Len(View(sweeps[k])) = Len(avg)
    /\ \A j \in 1..Len(avg) :
         avg[j].d > 0 /\ avg[j].n * Cardinality(S) = SumOver(S, View, j) * avg[j].d

\* C9: the averaged voltage and current traces of chirp_amp_phase are the
\* pointwise mean over exactly the sweeps whose final 100 voltage samples are
\* not all zero, whatever their position, the check being made on the full
\* trace and not on the stimulus epoch.
AmpPhaseAveragesFullTraceSurvivors ==
    (ret.fn = "chirp_amp_phase" /\ ret.err = "none")
    => /\ MeanOfSweeps(ret.out.avg_v, FullTraceSurvivors, SweepV)
       /\ MeanOfSweeps(ret.out.avg_i, FullTraceSurvivors, SweepI)

-----------------------------------------------------------------------------
(* Properties of transform_sweep. *)

\* idx (from 0) is the lowest index of an entry of xf closest to f
IsNearestIndex(xf, f, idx) ==
    /\ idx + 1 \in 1..Len(xf)
    /\ \A k \in 1..Len(xf) :
         /\ ~FLess(FAbs(FSub(xf[k], FromInt(f))), FAbs(FSub(xf[idx + 1], FromInt(f))))
         /\ k < idx + 1 =>
              FLess(FAbs(FSub(xf[idx + 1], FromInt(f))), FAbs(FSub(xf[k], FromInt(f))))

\* the three arrays returned are the entries first .. last (from 0) of the
\* spectra and of the frequency axis
ReturnsRange(out, first, last) ==
    /\ Len(out.v) = last - first + 1
    /\ Len(out.i) = last - first + 1
    /\ Len(out.freq) = last - first + 1
    /\ \A j \in 1..(last - first + 1) :
         /\ out.v[j] = out.v_fft[first + j]
         /\ out.i[j] = out.i_fft[first + j]
         /\ out.freq[j] = out.xf[first + j]

LocatedBand(r) ==
    /\ IsNearestIndex(r.out.xf, r.params.min_freq, r.out.low_ind)
    /\ IsNearestIndex(r.out.xf, r.params.max_freq, r.out.high_ind)

\* C6 as claimed: transform_sweep returns the same index range of the two
\* spectra and of the frequency axis, from the index located for min_freq
\* through the index located for max_freq, both included.
TransformReturnsInclusiveBand ==
    (ret.fn = "transform_sweep" /\ ret.err = "none")
    => /\ LocatedBand(ret)
       /\ ReturnsRange(ret.out, ret.out.low_ind, ret.out.high_ind)

\* C6 as amended: the range runs from the index located for min_freq up to,
\* but not including, the index located for max_freq.
TransformReturnsHalfOpenBand ==
    (ret.fn = "transform_sweep" /\ ret.err = "none")
    => /\ LocatedBand(ret)
       /\ ReturnsRange(ret.out, ret.out.low_ind, ret.out.high_ind - 1)

\* a transform whose band holds several bins
TransformReturnedBand ==
    /\ ret.fn = "transform_sweep"
    /\ ret.err = "none"
    /\ ret.out.low_ind = 3
    /\ ret.out.high_ind = 12
    /\ Len(ret.out.freq) = 9

\* C7: sweeps are consumed read-only: no call changes the state of a Sweep
\* (its time, voltage and current views, its selected epoch).
SweepsReadOnly == [][sweeps' = sweeps]_vars

-----------------------------------------------------------------------------
(* Properties of the feature computation. *)

\* the first index (from 1) of the maximum of amp
FirstMaxIndex(amp) ==
    CHOOSE p \in 1..Len(amp) :
        /\ \A k \in 1..Len(amp) : amp[k] <= amp[p]
        /\ \A k \in 1..(p - 1) : amp[k] < amp[p]

\* |a - z/sqrt(2)|, times 10000 * sqrt(2), with sqrt(2) taken as 1.4142
CutoffDistance(a, z) == Abs(a * 14142 - z * 10000)

\* the first index (from 1) of the entry of amp closest to z/sqrt(2)
FirstCutoffIndex(amp, z) ==
    CHOOSE c \in 1..Len(amp) :
        /\ \A k \in 1..Len(amp) : CutoffDistance(amp[c], z) <= CutoffDistance(amp[k], z)
        /\ \A k \in 1..(c - 1) : CutoffDistance(amp[c], z) < CutoffDistance(amp[k], z)

\* C8: for every curve of length N >= 1 the 9 named features are returned,
\* peak_freq, z_peak and phase_peak taken at the first index of the maximum
\* amplitude and 3db_freq at the first index, over the whole array, that
\* minimises |amp[k] - z_peak/sqrt(2)|.
FeaturesAtPeakAndCutoff ==
    ret.fn = "Features" =>
        /\ DOMAIN ret.features = FeatureNames
        /\ ret.features["peak_freq"] = curve.freq[FirstMaxIndex(curve.amp)]
        /\ ret.features["z_peak"] = FromInt(curve.amp[FirstMaxIndex(curve.amp)])
        /\ ret.features["phase_peak"] = FromInt(curve.phase[FirstMaxIndex(curve.amp)])
        /\ ret.features["3db_freq"] =
             curve.freq[FirstCutoffIndex(curve.amp, curve.amp[FirstMaxIndex(curve.amp)])]

\* a curve whose maximum is taken twice, after a lower first sample
FeaturesOfRepeatedMaximum ==
    /\ ret.fn = "Features"
    /\ Len(curve.amp) = 3
    /\ curve.amp[1] < curve.amp[2]
    /\ curve.amp[2] = curve.amp[3]
    /\ ret.features["peak_freq"] = curve.freq[2]

\* x >= y as IEEE compares
FGeq(x, y) == ~IsNaN(x) /\ ~IsNaN(y) /\ ~FLess(x, y)

\* C10: in every feature set z_peak >= z_low and z_peak >= z_high, so
\* peak_ratio >= 1 whenever z_low > 0; peak_freq and 3db_freq are entries of
\* the frequency array.
FeatureBounds ==
    ret.fn = "Features" =>
        /\ FGeq(ret.features["z_peak"], ret.features["z_low"])
        /\ FGeq(ret.features["z_peak"], ret.features["z_high"])
        /\ FLess(FromInt(0), ret.features["z_low"])
             => FGeq(ret.features["peak_ratio"], FromInt(1))
        /\ \E k \in 1..Len(curve.freq) : ret.features["peak_freq"] = curve.freq[k]
        /\ \E k \in 1..Len(curve.freq) : ret.features["3db_freq"] = curve.freq[k]

\* a curve that rises from a positive first sample to its peak
FeaturesOfRisingCurve ==
    /\ ret.fn = "Features"
    /\ FLess(FromInt(0), ret.features["z_low"])
    /\ FLess(FromInt(1), ret.features["peak_ratio"])
    /\ FLess(ret.features["z_high"], ret.features["z_peak"])

====
